---- MODULE Spec2Model ----
(***************************************************************************)
(* The workspace export job of scipio:                                     *)
(*   src/src/app/api/v1/data_exports/workspace/mod.rs                      *)
(* export_task transforms a batch of volunteers, creates one workspace     *)
(* account per volunteer (fail-fast), persists the export records in one   *)
(* batch insert, sends the onboarding emails (best-effort) and writes the  *)
(* job status.  Every adapter call is modelled as two steps, the call      *)
(* being issued and the awaited call resolving, so that what is in flight  *)
(* is part of the state.                                                   *)
(***************************************************************************)
EXTENDS Integers, Sequences, FiniteSets, TLC

VARIABLES
    env_override,           \* MAIL_RECIPIENT_OVERRIDE of the process environment
    pc,                     \* pc[j]: the stage export_task of job j is in
    params,                 \* params[j]: the ExportParams the task was given
    processed,              \* processed[j]: the ProcessedVolunteers local
    next_user,              \* cursor of `for user in export_data`
    loop_broken,            \* whether that loop hit its `break`
    successfully_exported,  \* the counter of export_volunteers_to_workspace
    next_email,             \* cursor of `for email in onboarding_data`
    save_result,            \* what save_exported_volunteers returned
    send_result,            \* what send_onboarding_emails returned
    calls,                  \* calls[j]: the adapter calls job j issued, in order
    ret,                    \* what export_task returned to its caller
    log,                    \* log[j]: the log lines job j wrote
    workspace,              \* the accounts of the external workspace
    exported_rows,          \* rows of the volunteers-exported-to-workspace table
    job_status,             \* the persisted status of each job
    mailbox                 \* the onboarding emails the mail service accepted

locals == <<pc, params, processed, next_user, loop_broken, successfully_exported,
            next_email, save_result, send_result, ret>>
external == <<workspace, exported_rows, job_status, mailbox>>
vars == <<env_override, locals, calls, log, external>>

(***************************************************************************)
(* Bounds and input domains                                                *)
(***************************************************************************)
MaxVolunteers == 3

JobIds == {"job-a", "job-b"}

Principal == "admin@developforgood.org"

VolunteerPool ==
    { [volunteer_id |-> "vol-1", first_name |-> "ada", last_name |-> "lovelace",
       email |-> "ada@home.example"],
      [volunteer_id |-> "vol-2", first_name |-> "alan", last_name |-> "turing",
       email |-> "alan@home.example"] }

VolunteerLists ==
    UNION { [1..n -> VolunteerPool] : n \in 0..MaxVolunteers }

Overrides == {"unset", "staging@developforgood.org"}

PasswordSeeds == {"k7", "q2"}

InsertErrors == {"duplicate key", "connection reset"}

OrgUnit == "/Programs/PantheonUsers"

None == "None"

(***************************************************************************)
(* Policies                                                                *)
(***************************************************************************)
BuildVolunteerEmail(first_name, last_name) ==
    first_name \o "." \o last_name \o "@developforgood.org"

GeneratePassword(seed, n) == seed \o "-" \o ToString(n)

GeneratedPasswords(seed, n) == [i \in 1..n |-> GeneratePassword(seed, i)]

(***************************************************************************)
(* process_volunteers: the three aligned vectors derived from the input    *)
(***************************************************************************)
WorkspaceUser(v, primary_email, pw) ==
    [primary_email  |-> primary_email,
     first_name     |-> v.first_name,
     last_name      |-> v.last_name,
     password       |-> pw,
     recovery_email |-> v.email]

\* Mutant: the override is not consulted.
RecipientIgnoresOverride(override, workspace_user) == workspace_user.recovery_email

Recipient(override, workspace_user) ==
    IF override = "unset" THEN workspace_user.recovery_email ELSE override

OnboardingEmail(override, workspace_user) ==
    [first_name         |-> workspace_user.first_name,
     last_name          |-> workspace_user.last_name,
     email              |-> Recipient(override, workspace_user),
     workspace_email    |-> workspace_user.primary_email,
     temporary_password |-> workspace_user.password,
     send_at            |-> None]

\* Mutant: the record keeps the volunteer's personal address.
PantheonRecordPersonalEmail(job_id, v, primary_email) ==
    [volunteer_id    |-> v.volunteer_id,
     job_id          |-> job_id,
     workspace_email |-> v.email,
     org_unit        |-> OrgUnit]

PantheonRecord(job_id, v, primary_email) ==
    [volunteer_id    |-> v.volunteer_id,
     job_id          |-> job_id,
     workspace_email |-> primary_email,
     org_unit        |-> OrgUnit]

EmptyProcessed ==
    [export_data |-> <<>>, pantheon_data |-> <<>>, onboarding_email_data |-> <<>>]

\* Mutant: the export record is inserted at the front of its vector.
PushVolunteerPrependsRecord(acc, job_id, v, pw, override) ==
    LET primary_email == BuildVolunteerEmail(v.first_name, v.last_name)
        workspace_user == WorkspaceUser(v, primary_email, pw)
    IN  [onboarding_email_data |->
            Append(acc.onboarding_email_data,
                   OnboardingEmail(override, workspace_user)),
         export_data |-> Append(acc.export_data, workspace_user),
         pantheon_data |->
            <<PantheonRecord(job_id, v, primary_email)>> \o acc.pantheon_data]

\* One iteration of `for v in &params.volunteers`: the email is derived once,
\* the password is the one generated for this volunteer, and one entry is
\* pushed onto each vector.
PushVolunteer(acc, job_id, v, pw, override) ==
    LET primary_email == BuildVolunteerEmail(v.first_name, v.last_name)
        temporary_password == pw
        workspace_user == WorkspaceUser(v, primary_email, temporary_password)
    IN  [onboarding_email_data |->
            Append(acc.onboarding_email_data,
                   OnboardingEmail(override, workspace_user)),
         export_data |-> Append(acc.export_data, workspace_user),
         pantheon_data |->
            Append(acc.pantheon_data, PantheonRecord(job_id, v, primary_email))]

RECURSIVE ProcessLoop(_, _, _, _, _)
ProcessLoop(p, pws, override, i, acc) ==
    IF i > Len(p.volunteers)
    THEN acc
    ELSE ProcessLoop(p, pws, override, i + 1,
                     PushVolunteer(acc, p.job_id, p.volunteers[i], pws[i], override))

ProcessVolunteers(p, pws, override) ==
    ProcessLoop(p, pws, override, 1, EmptyProcessed)

Truncate(s, n) == IF n < Len(s) THEN SubSeq(s, 1, n) ELSE s

(***************************************************************************)
(* Adapter calls                                                           *)
(***************************************************************************)
Ok == [tag |-> "Ok", err |-> ""]
Err(e) == [tag |-> "Err", err |-> e]
Unset == [tag |-> "unset", err |-> ""]
InFlight == [tag |-> "pending", err |-> ""]

CreateError == "workspace: account not created"
SendError == "mail: message not accepted"
StatusWriteError == "storage: status not written"

Call(op, arg) == [op |-> op, arg |-> arg, result |-> InFlight]

Pending(j) == Len(calls[j]) > 0 /\ calls[j][Len(calls[j])].result = InFlight

LastCall(j) == calls[j][Len(calls[j])]

Issue(j, op, arg) == calls' = [calls EXCEPT ![j] = Append(@, Call(op, arg))]

Resolve(j, result) ==
    calls' = [calls EXCEPT ![j][Len(calls[j])].result = result]

Awaiting(j, stage, ops) ==
    /\ pc[j] = stage
    /\ Pending(j)
    /\ LastCall(j).op \in ops

Logged(j, level, event) ==
    log' = [log EXCEPT ![j] = Append(@, [level |-> level, event |-> event])]

(***************************************************************************)
(* Init: one export job has been handed to export_task                     *)
(***************************************************************************)
IdleParams(j) == [job_id |-> j, principal |-> Principal, volunteers |-> <<>>]

InitCommon ==
    /\ env_override \in Overrides
    /\ processed = [j \in JobIds |-> EmptyProcessed]
    /\ next_user = [j \in JobIds |-> 1]
    /\ loop_broken = [j \in JobIds |-> FALSE]
    /\ successfully_exported = [j \in JobIds |-> 0]
    /\ next_email = [j \in JobIds |-> 1]
    /\ save_result = [j \in JobIds |-> Unset]
    /\ send_result = [j \in JobIds |-> Unset]
    /\ calls = [j \in JobIds |-> <<>>]
    /\ ret = [j \in JobIds |-> Unset]
    /\ log = [j \in JobIds |-> <<>>]
    /\ workspace = {}
    /\ exported_rows = {}
    /\ job_status = [j \in JobIds |-> [state |-> "pending", reason |-> ""]]
    /\ mailbox = {}

Init ==
    /\ InitCommon
    /\ \E job \in JobIds, vs \in VolunteerLists :
        /\ pc = [j \in JobIds |-> IF j = job THEN "Transforming" ELSE "Idle"]
        /\ params = [j \in JobIds |->
                        IF j = job
                        THEN [job_id |-> j, principal |-> Principal, volunteers |-> vs]
                        ELSE IdleParams(j)]

(***************************************************************************)
(* Transforming: let mut processed = process_volunteers(&params)?          *)
(* The passwords are whatever the password policy generates; building an   *)
(* OnboardingEmailParams may fail, which fails the whole transform.        *)
(***************************************************************************)
BuildError == "onboarding email params: build failed"

TransformOk(j) ==
    /\ pc[j] = "Transforming"
    /\ \E seed \in PasswordSeeds :
        processed' = [processed EXCEPT
            ![j] = ProcessVolunteers(
                        params[j],
                        GeneratedPasswords(seed, Len(params[j].volunteers)),
                        env_override)]
    /\ pc' = [pc EXCEPT ![j] = "Provisioning"]
    /\ UNCHANGED <<env_override, params, next_user, loop_broken,
                   successfully_exported, next_email, save_result, send_result,
                   ret, calls, log, external>>

\* Mutant: a failed transform marks the job errored before returning.
TransformErrMarksErrored(j) ==
    /\ pc[j] = "Transforming"
    /\ Len(params[j].volunteers) > 0
    /\ ret' = [ret EXCEPT ![j] = Err(BuildError)]
    /\ pc' = [pc EXCEPT ![j] = "Done"]
    /\ calls' = [calls EXCEPT ![j] = Append(@,
            [Call("mark_job_errored", [job_id |-> j, reason |-> BuildError])
                EXCEPT !.result = Ok])]
    /\ job_status' = [job_status EXCEPT
                        ![j] = [state |-> "errored", reason |-> BuildError]]
    /\ UNCHANGED <<env_override, params, processed, next_user, loop_broken,
                   successfully_exported, next_email, save_result, send_result,
                   log, workspace, exported_rows, mailbox>>

TransformErr(j) ==
    /\ pc[j] = "Transforming"
    /\ Len(params[j].volunteers) > 0
    /\ ret' = [ret EXCEPT ![j] = Err(BuildError)]
    /\ pc' = [pc EXCEPT ![j] = "Done"]
    /\ UNCHANGED <<env_override, params, processed, next_user, loop_broken,
                   successfully_exported, next_email, save_result, send_result,
                   calls, log, external>>

(***************************************************************************)
(* Provisioning: export_volunteers_to_workspace, then the truncation       *)
(***************************************************************************)
CreateVolunteerCall(j) ==
    /\ pc[j] = "Provisioning"
    /\ ~Pending(j)
    /\ ~loop_broken[j]
    /\ next_user[j] <= Len(processed[j].export_data)
    /\ Issue(j, "create_volunteer",
             [principal |-> params[j].principal,
              user      |-> processed[j].export_data[next_user[j]]])
    /\ UNCHANGED <<env_override, locals, log, external>>

CreateVolunteerOk(j) ==
    /\ Awaiting(j, "Provisioning", {"create_volunteer"})
    /\ Resolve(j, Ok)
    /\ workspace' = workspace \cup {LastCall(j).arg.user}
    /\ Logged(j, "info", "exported user to workspace")
    /\ successfully_exported' = [successfully_exported EXCEPT ![j] = @ + 1]
    /\ next_user' = [next_user EXCEPT ![j] = @ + 1]
    /\ UNCHANGED <<env_override, pc, params, processed, loop_broken, next_email,
                   save_result, send_result, ret, exported_rows, job_status,
                   mailbox>>

\* Mutant: the Err arm logs and goes on to the next user instead of breaking.
CreateVolunteerErrContinues(j) ==
    /\ Awaiting(j, "Provisioning", {"create_volunteer"})
    /\ Resolve(j, Err(CreateError))
    /\ Logged(j, "error", "failed to export user to workspace")
    /\ next_user' = [next_user EXCEPT ![j] = @ + 1]
    /\ UNCHANGED <<env_override, pc, params, processed, loop_broken,
                   successfully_exported, next_email, save_result, send_result,
                   ret, external>>

\* Mutant: the Err arm logs and tries the same user again.
CreateVolunteerErrRetries(j) ==
    /\ Awaiting(j, "Provisioning", {"create_volunteer"})
    /\ Resolve(j, Err(CreateError))
    /\ Logged(j, "error", "failed to export user to workspace")
    /\ UNCHANGED <<env_override, locals, external>>

CreateVolunteerErr(j) ==
    /\ Awaiting(j, "Provisioning", {"create_volunteer"})
    /\ Resolve(j, Err(CreateError))
    /\ Logged(j, "error", "failed to export user to workspace")
    /\ loop_broken' = [loop_broken EXCEPT ![j] = TRUE]
    /\ UNCHANGED <<env_override, pc, params, processed, next_user,
                   successfully_exported, next_email, save_result, send_result,
                   ret, external>>

\* Mutant: the downstream vectors are left at full length.
TruncateProcessedKeepsAll(p, exported_count) == p

TruncateProcessed(p, exported_count) ==
    IF exported_count /= Len(p.export_data)
    THEN [p EXCEPT
            !.pantheon_data = Truncate(@, exported_count),
            !.onboarding_email_data = Truncate(@, exported_count)]
    ELSE p

FinishProvisioning(j) ==
    /\ pc[j] = "Provisioning"
    /\ ~Pending(j)
    /\ loop_broken[j] \/ next_user[j] > Len(processed[j].export_data)
    /\ processed' = [processed EXCEPT
                        ![j] = TruncateProcessed(@, successfully_exported[j])]
    /\ IF successfully_exported[j] /= Len(processed[j].export_data)
       THEN Logged(j, "error", "failed to export all users to workspace")
       ELSE UNCHANGED log
    /\ pc' = [pc EXCEPT ![j] = "Persisting"]
    /\ UNCHANGED <<env_override, params, next_user, loop_broken,
                   successfully_exported, next_email, save_result, send_result,
                   ret, calls, external>>

(***************************************************************************)
(* Persisting: save_exported_volunteers(services, processed.pantheon_data) *)
(***************************************************************************)
ExecOptsBuild == Ok

\* Mutant: an empty batch is not handed to the storage layer.
SaveCallSkipsEmpty(j) ==
    /\ pc[j] = "Persisting"
    /\ ~Pending(j)
    /\ IF processed[j].pantheon_data /= <<>>
       THEN /\ Issue(j, "batch_insert_volunteers_exported_to_workspace",
                     [records |-> processed[j].pantheon_data])
            /\ UNCHANGED <<pc, save_result>>
       ELSE /\ save_result' = [save_result EXCEPT ![j] = Ok]
            /\ pc' = [pc EXCEPT ![j] = "Notifying"]
            /\ UNCHANGED calls
    /\ UNCHANGED <<env_override, params, processed, next_user, loop_broken,
                   successfully_exported, next_email, send_result, ret, log,
                   external>>

SaveCall(j) ==
    /\ pc[j] = "Persisting"
    /\ ~Pending(j)
    /\ IF ExecOptsBuild.tag = "Ok"
       THEN /\ Issue(j, "batch_insert_volunteers_exported_to_workspace",
                     [records |-> processed[j].pantheon_data])
            /\ UNCHANGED <<pc, save_result>>
       ELSE /\ save_result' = [save_result EXCEPT ![j] = ExecOptsBuild]
            /\ pc' = [pc EXCEPT ![j] = "Finalizing"]
            /\ UNCHANGED calls
    /\ UNCHANGED <<env_override, params, processed, next_user, loop_broken,
                   successfully_exported, next_email, send_result, ret, log,
                   external>>

SaveOk(j) ==
    /\ Awaiting(j, "Persisting", {"batch_insert_volunteers_exported_to_workspace"})
    /\ Resolve(j, Ok)
    /\ exported_rows' = exported_rows \cup
            {LastCall(j).arg.records[i] : i \in 1..Len(LastCall(j).arg.records)}
    /\ save_result' = [save_result EXCEPT ![j] = Ok]
    /\ pc' = [pc EXCEPT ![j] = "Notifying"]
    /\ UNCHANGED <<env_override, params, processed, next_user, loop_broken,
                   successfully_exported, next_email, send_result, ret, log,
                   workspace, job_status, mailbox>>

\* Mutant: a failed batch insert is compensated by deleting the accounts the
\* run created.
SaveErrRollsBack(j) ==
    /\ Awaiting(j, "Persisting", {"batch_insert_volunteers_exported_to_workspace"})
    /\ \E e \in InsertErrors :
        /\ Resolve(j, Err(e))
        /\ save_result' = [save_result EXCEPT ![j] = Err(e)]
    /\ workspace' = workspace \
            {processed[j].export_data[i] : i \in 1..successfully_exported[j]}
    /\ pc' = [pc EXCEPT ![j] = "Finalizing"]
    /\ UNCHANGED <<env_override, params, processed, next_user, loop_broken,
                   successfully_exported, next_email, send_result, ret, log,
                   exported_rows, job_status, mailbox>>

\* Mutant: a failed batch insert is swallowed and the job goes on to notify.
SaveErrIgnored(j) ==
    /\ Awaiting(j, "Persisting", {"batch_insert_volunteers_exported_to_workspace"})
    /\ \E e \in InsertErrors : Resolve(j, Err(e))
    /\ Logged(j, "error", "failed to save exported volunteers")
    /\ save_result' = [save_result EXCEPT ![j] = Ok]
    /\ pc' = [pc EXCEPT ![j] = "Notifying"]
    /\ UNCHANGED <<env_override, params, processed, next_user, loop_broken,
                   successfully_exported, next_email, send_result, ret,
                   external>>

\* Mutant: a failed batch insert is returned to the caller with `?`.
SaveErrPropagates(j) ==
    /\ Awaiting(j, "Persisting", {"batch_insert_volunteers_exported_to_workspace"})
    /\ \E e \in InsertErrors :
        /\ Resolve(j, Err(e))
        /\ save_result' = [save_result EXCEPT ![j] = Err(e)]
        /\ ret' = [ret EXCEPT ![j] = Err(e)]
    /\ pc' = [pc EXCEPT ![j] = "Done"]
    /\ UNCHANGED <<env_override, params, processed, next_user, loop_broken,
                   successfully_exported, next_email, send_result, log,
                   external>>

SaveErr(j) ==
    /\ Awaiting(j, "Persisting", {"batch_insert_volunteers_exported_to_workspace"})
    /\ \E e \in InsertErrors :
        /\ Resolve(j, Err(e))
        /\ save_result' = [save_result EXCEPT ![j] = Err(e)]
    /\ pc' = [pc EXCEPT ![j] = "Finalizing"]
    /\ UNCHANGED <<env_override, params, processed, next_user, loop_broken,
                   successfully_exported, next_email, send_result, ret, log,
                   external>>

(***************************************************************************)
(* Notifying: send_onboarding_emails(services, onboarding_email_data)      *)
(***************************************************************************)
\* Mutant: the send is spawned and not awaited before the next one is issued.
SendCallNotAwaited(j) ==
    /\ pc[j] = "Notifying"
    /\ next_email[j] <= Len(processed[j].onboarding_email_data)
    /\ Issue(j, "send_onboarding_email",
             [email |-> processed[j].onboarding_email_data[next_email[j]]])
    /\ next_email' = [next_email EXCEPT ![j] = @ + 1]
    /\ UNCHANGED <<env_override, pc, params, processed, next_user, loop_broken,
                   successfully_exported, save_result, send_result, ret, log,
                   external>>

SendCall(j) ==
    /\ pc[j] = "Notifying"
    /\ ~Pending(j)
    /\ next_email[j] <= Len(processed[j].onboarding_email_data)
    /\ Issue(j, "send_onboarding_email",
             [email |-> processed[j].onboarding_email_data[next_email[j]]])
    /\ UNCHANGED <<env_override, locals, log, external>>

SendOk(j) ==
    /\ Awaiting(j, "Notifying", {"send_onboarding_email"})
    /\ Resolve(j, Ok)
    /\ mailbox' = mailbox \cup {LastCall(j).arg.email}
    /\ Logged(j, "info", "sent onboarding email")
    /\ next_email' = [next_email EXCEPT ![j] = @ + 1]
    /\ UNCHANGED <<env_override, pc, params, processed, next_user, loop_broken,
                   successfully_exported, save_result, send_result, ret,
                   workspace, exported_rows, job_status>>

\* Mutant: a failed send is returned with `?`, ending send_onboarding_emails.
SendErrPropagates(j) ==
    /\ Awaiting(j, "Notifying", {"send_onboarding_email"})
    /\ Resolve(j, Err(SendError))
    /\ send_result' = [send_result EXCEPT ![j] = Err(SendError)]
    /\ pc' = [pc EXCEPT ![j] = "Finalizing"]
    /\ UNCHANGED <<env_override, params, processed, next_user, loop_broken,
                   successfully_exported, next_email, save_result, ret, log,
                   external>>

\* Mutant: a failed send breaks out of the loop, as the provisioning loop does.
SendErrBreaks(j) ==
    /\ Awaiting(j, "Notifying", {"send_onboarding_email"})
    /\ Resolve(j, Err(SendError))
    /\ Logged(j, "error", "failed to send onboarding email")
    /\ next_email' = [next_email EXCEPT
                        ![j] = Len(processed[j].onboarding_email_data) + 1]
    /\ UNCHANGED <<env_override, pc, params, processed, next_user, loop_broken,
                   successfully_exported, save_result, send_result, ret,
                   external>>

SendErr(j) ==
    /\ Awaiting(j, "Notifying", {"send_onboarding_email"})
    /\ Resolve(j, Err(SendError))
    /\ Logged(j, "error", "failed to send onboarding email")
    /\ next_email' = [next_email EXCEPT ![j] = @ + 1]
    /\ UNCHANGED <<env_override, pc, params, processed, next_user, loop_broken,
                   successfully_exported, save_result, send_result, ret,
                   external>>

FinishNotifying(j) ==
    /\ pc[j] = "Notifying"
    /\ ~Pending(j)
    /\ next_email[j] > Len(processed[j].onboarding_email_data)
    /\ send_result' = [send_result EXCEPT ![j] = Ok]
    /\ pc' = [pc EXCEPT ![j] = "Finalizing"]
    /\ UNCHANGED <<env_override, params, processed, next_user, loop_broken,
                   successfully_exported, next_email, save_result, ret, calls,
                   log, external>>

(***************************************************************************)
(* Finalizing: the match on the two results, and the status write          *)
(***************************************************************************)
\* Mutant: the status write targets one fixed job instead of params.job_id.
StatusCallFixedJob(job_id, saved, sent) ==
    IF saved.tag = "Ok" /\ sent.tag = "Ok"
    THEN Call("mark_job_complete", [job_id |-> "job-a", reason |-> ""])
    ELSE Call("mark_job_errored",
              [job_id |-> "job-a",
               reason |-> IF saved.tag = "Ok" THEN sent.err ELSE saved.err])

StatusCall(job_id, saved, sent) ==
    IF saved.tag = "Ok"
    THEN IF sent.tag = "Ok"
         THEN Call("mark_job_complete", [job_id |-> job_id, reason |-> ""])
         ELSE Call("mark_job_errored", [job_id |-> job_id, reason |-> sent.err])
    ELSE Call("mark_job_errored", [job_id |-> job_id, reason |-> saved.err])

\* Mutant: a partial export is reported as an errored job.
MarkJobCallChecksCount(j) ==
    /\ pc[j] = "Finalizing"
    /\ ~Pending(j)
    /\ calls' = [calls EXCEPT ![j] = Append(@,
            IF successfully_exported[j] /= Len(processed[j].export_data)
            THEN Call("mark_job_errored",
                      [job_id |-> params[j].job_id, reason |-> "partial export"])
            ELSE StatusCall(params[j].job_id, save_result[j], send_result[j]))]
    /\ UNCHANGED <<env_override, locals, log, external>>

MarkJobCall(j) ==
    /\ pc[j] = "Finalizing"
    /\ ~Pending(j)
    /\ IF ExecOptsBuild.tag = "Ok"
       THEN /\ calls' = [calls EXCEPT ![j] = Append(@,
                    StatusCall(params[j].job_id, save_result[j], send_result[j]))]
            /\ UNCHANGED <<pc, ret>>
       ELSE /\ ret' = [ret EXCEPT ![j] = ExecOptsBuild]
            /\ pc' = [pc EXCEPT ![j] = "Done"]
            /\ UNCHANGED calls
    /\ UNCHANGED <<env_override, params, processed, next_user, loop_broken,
                   successfully_exported, next_email, save_result, send_result,
                   log, external>>

StatusWritten(call) ==
    IF call.op = "mark_job_complete"
    THEN [state |-> "complete", reason |-> ""]
    ELSE [state |-> "errored", reason |-> call.arg.reason]

MarkJobOk(j) ==
    /\ Awaiting(j, "Finalizing", {"mark_job_complete", "mark_job_errored"})
    /\ Resolve(j, Ok)
    /\ job_status' = [job_status EXCEPT
                        ![LastCall(j).arg.job_id] = StatusWritten(LastCall(j))]
    /\ ret' = [ret EXCEPT ![j] = Ok]
    /\ pc' = [pc EXCEPT ![j] = "Done"]
    /\ UNCHANGED <<env_override, params, processed, next_user, loop_broken,
                   successfully_exported, next_email, save_result, send_result,
                   log, workspace, exported_rows, mailbox>>

\* Mutant: a failed status write is logged and export_task returns Ok.
MarkJobErrSwallowed(j) ==
    /\ Awaiting(j, "Finalizing", {"mark_job_complete", "mark_job_errored"})
    /\ Resolve(j, Err(StatusWriteError))
    /\ Logged(j, "error", "failed to write job status")
    /\ ret' = [ret EXCEPT ![j] = Ok]
    /\ pc' = [pc EXCEPT ![j] = "Done"]
    /\ UNCHANGED <<env_override, params, processed, next_user, loop_broken,
                   successfully_exported, next_email, save_result, send_result,
                   external>>

\* Mutant: when mark_job_complete fails the job is marked errored instead.
MarkJobErrFallsBack(j) ==
    /\ Awaiting(j, "Finalizing", {"mark_job_complete", "mark_job_errored"})
    /\ Resolve(j, Err(StatusWriteError))
    /\ IF LastCall(j).op = "mark_job_complete"
       THEN /\ save_result' = [save_result EXCEPT ![j] = Err(StatusWriteError)]
            /\ UNCHANGED <<pc, ret>>
       ELSE /\ ret' = [ret EXCEPT ![j] = Err(StatusWriteError)]
            /\ pc' = [pc EXCEPT ![j] = "Done"]
            /\ UNCHANGED save_result
    /\ UNCHANGED <<env_override, params, processed, next_user, loop_broken,
                   successfully_exported, next_email, send_result, log,
                   external>>

MarkJobErr(j) ==
    /\ Awaiting(j, "Finalizing", {"mark_job_complete", "mark_job_errored"})
    /\ Resolve(j, Err(StatusWriteError))
    /\ ret' = [ret EXCEPT ![j] = Err(StatusWriteError)]
    /\ pc' = [pc EXCEPT ![j] = "Done"]
    /\ UNCHANGED <<env_override, params, processed, next_user, loop_broken,
                   successfully_exported, next_email, save_result, send_result,
                   log, external>>

(***************************************************************************)
(* The specification                                                       *)
(***************************************************************************)
Next ==
    \E j \in JobIds :
        \/ TransformOk(j)
        \/ TransformErr(j)
        \/ CreateVolunteerCall(j)
        \/ CreateVolunteerOk(j)
        \/ CreateVolunteerErr(j)
        \/ FinishProvisioning(j)
        \/ SaveCall(j)
        \/ SaveOk(j)
        \/ SaveErr(j)
        \/ SendCall(j)
        \/ SendOk(j)
        \/ SendErr(j)
        \/ FinishNotifying(j)
        \/ MarkJobCall(j)
        \/ MarkJobOk(j)
        \/ MarkJobErr(j)

Spec == Init /\ [][Next]_vars

(***************************************************************************)
(* Observers of a run, used by the properties below                        *)
(***************************************************************************)
StatusOps == {"mark_job_complete", "mark_job_errored"}
InsertOp == "batch_insert_volunteers_exported_to_workspace"

CallsOf(j, ops) == SelectSeq(calls[j], LAMBDA c : c.op \in ops)
CreateCalls(j) == CallsOf(j, {"create_volunteer"})
InsertCalls(j) == CallsOf(j, {InsertOp})
SendCalls(j) == CallsOf(j, {"send_onboarding_email"})
StatusCalls(j) == CallsOf(j, StatusOps)

NumVolunteers(j) == Len(params[j].volunteers)

\* create_volunteer failed for the volunteer at 0-based index k
FailedAt(j, k) ==
    /\ Len(CreateCalls(j)) = k + 1
    /\ CreateCalls(j)[k + 1].result.tag = "Err"

ProvisioningFailed(j) == \E k \in 0..(NumVolunteers(j) - 1) : FailedAt(j, k)

InsertSucceeded(j) == \E i \in 1..Len(InsertCalls(j)) : InsertCalls(j)[i].result = Ok
InsertFailed(j) ==
    \E i \in 1..Len(InsertCalls(j)) : InsertCalls(j)[i].result.tag = "Err"

TransformFailed(j) == pc[j] = "Done" /\ calls[j] = <<>> /\ ret[j] = Err(BuildError)

\* what the transform derived for the volunteer at (1-based) index i
ExpectedRecord(j, i) ==
    PantheonRecord(j, params[j].volunteers[i],
                   BuildVolunteerEmail(params[j].volunteers[i].first_name,
                                       params[j].volunteers[i].last_name))
ExpectedEmail(j, i) == OnboardingEmail(env_override, processed[j].export_data[i])

Seq1(n, F(_)) == [i \in 1..n |-> F(i)]

(***************************************************************************)
(* C1: when create_volunteer first fails at index k < N, exactly the first *)
(* k accounts exist, the vectors handed downstream are the first k export  *)
(* records and the first k payloads, every batch insert carries exactly    *)
(* the first k records in input order, the notifications attempted are a   *)
(* prefix of the first k payloads (all k of them once the notifier has     *)
(* run), and nothing at an index >= k reaches persistence or notification. *)
(***************************************************************************)
C1_OnlyProvisionedReferenced ==
    \A j \in JobIds :
        LET provisioned ==
                {i \in 1..Len(CreateCalls(j)) : CreateCalls(j)[i].result = Ok}
        IN  /\ \A c \in 1..Len(InsertCalls(j)) :
                LET records == InsertCalls(j)[c].arg.records
                IN  /\ Len(records) = Cardinality(provisioned)
                    /\ \A i \in 1..Len(records) :
                        /\ i \in provisioned
                        /\ records[i] = ExpectedRecord(j, i)
            /\ \A i \in 1..Len(SendCalls(j)) :
                /\ i \in provisioned
                /\ SendCalls(j)[i].arg.email = ExpectedEmail(j, i)

C1_TruncatedToProvisioned ==
    /\ C1_OnlyProvisionedReferenced
    /\ \A j \in JobIds : \A k \in 0..(NumVolunteers(j) - 1) :
        FailedAt(j, k) =>
            LET creates == CreateCalls(j)
                inserts == InsertCalls(j)
                sends == SendCalls(j)
            IN  /\ \A i \in 1..k :
                    /\ creates[i].result = Ok
                    /\ creates[i].arg.user = processed[j].export_data[i]
                /\ workspace = {processed[j].export_data[i] : i \in 1..k}
                /\ successfully_exported[j] = k
                /\ pc[j] /= "Provisioning" =>
                    /\ processed[j].pantheon_data =
                            Seq1(k, LAMBDA i : ExpectedRecord(j, i))
                    /\ processed[j].onboarding_email_data =
                            Seq1(k, LAMBDA i : ExpectedEmail(j, i))
                /\ \A i \in 1..Len(inserts) :
                    inserts[i].arg.records = Seq1(k, LAMBDA n : ExpectedRecord(j, n))
                /\ exported_rows \subseteq {ExpectedRecord(j, i) : i \in 1..k}
                /\ Len(sends) <= k
                /\ \A i \in 1..Len(sends) : sends[i].arg.email = ExpectedEmail(j, i)
                /\ mailbox \subseteq {ExpectedEmail(j, i) : i \in 1..k}
                /\ (pc[j] \in {"Finalizing", "Done"} /\ InsertSucceeded(j)) =>
                        Len(sends) = k

C1_Witness ==
    \E j \in JobIds :
        /\ NumVolunteers(j) = 3
        /\ FailedAt(j, 1)
        /\ pc[j] = "Done"
        /\ Len(InsertCalls(j)) = 1
        /\ Len(InsertCalls(j)[1].arg.records) = 1
        /\ Len(SendCalls(j)) = 1
        /\ Cardinality(workspace) = 1

(***************************************************************************)
(* C2: the provisioning loop is fail-fast.  The i-th create_volunteer call *)
(* is for the i-th request (input order, each request at most once), and a *)
(* call that returned an error is the last create_volunteer call of the    *)
(* run: nothing is attempted after it, nothing is retried.                 *)
(***************************************************************************)
C2_FailFast ==
    \A j \in JobIds :
        LET creates == CreateCalls(j)
        IN  /\ Len(creates) <= Len(processed[j].export_data)
            /\ \A i \in 1..Len(creates) :
                /\ creates[i].arg.user = processed[j].export_data[i]
                /\ creates[i].arg.principal = params[j].principal
                /\ creates[i].result.tag = "Err" => i = Len(creates)
            /\ (\E i \in 1..Len(creates) : creates[i].result.tag = "Err") =>
                    /\ loop_broken[j]
                    /\ ~ENABLED CreateVolunteerCall(j)

C2_Witness ==
    \E j \in JobIds :
        /\ NumVolunteers(j) = 3
        /\ FailedAt(j, 1)
        /\ pc[j] = "Done"
        /\ Len(CreateCalls(j)) = 2

StatusWriteFailed(j) ==
    \E i \in 1..Len(StatusCalls(j)) : StatusCalls(j)[i].result.tag = "Err"
StatusWriteSucceeded(j) ==
    \E i \in 1..Len(StatusCalls(j)) : StatusCalls(j)[i].result = Ok

PendingStatus == [state |-> "pending", reason |-> ""]
Complete == [state |-> "complete", reason |-> ""]
Errored(reason) == [state |-> "errored", reason |-> reason]

(***************************************************************************)
(* C3: when the batch insert fails, no send_onboarding_email call is made  *)
(* in that run, the status write the run issues is mark_job_errored with   *)
(* the message of the insert's error as its reason, and the persisted      *)
(* status becomes errored with that reason once the write succeeds; it is  *)
(* never complete.                                                         *)
(***************************************************************************)
C3_InsertFailureErrorsJob ==
    \A j \in JobIds :
        InsertFailed(j) =>
            LET e == InsertCalls(j)[1].result.err
            IN  /\ SendCalls(j) = <<>>
                /\ mailbox = {}
                /\ exported_rows = {}
                /\ \A i \in 1..Len(StatusCalls(j)) :
                    /\ StatusCalls(j)[i].op = "mark_job_errored"
                    /\ StatusCalls(j)[i].arg = [job_id |-> j, reason |-> e]
                /\ job_status[j] \in {PendingStatus, Errored(e)}
                /\ pc[j] = "Done" => Len(StatusCalls(j)) = 1
                /\ (pc[j] = "Done" /\ StatusWriteSucceeded(j)) =>
                        job_status[j] = Errored(e)

C3_Witness ==
    \E j \in JobIds :
        /\ NumVolunteers(j) = 3
        /\ Len(CreateCalls(j)) = 3
        /\ ~ProvisioningFailed(j)
        /\ InsertFailed(j)
        /\ pc[j] = "Done"
        /\ job_status[j] = Errored("connection reset")

(***************************************************************************)
(* C4: notification failures never affect the job status.  Whenever the    *)
(* batch insert succeeded, the status write issued is mark_job_complete    *)
(* whatever the outcomes of the sends, and no mark_job_errored call and no *)
(* persisted status carries a notification error as its reason.            *)
(***************************************************************************)
C4_SendFailuresDoNotAffectStatus ==
    \A j \in JobIds :
        /\ InsertSucceeded(j) =>
            /\ \A i \in 1..Len(StatusCalls(j)) :
                /\ StatusCalls(j)[i].op = "mark_job_complete"
                /\ StatusCalls(j)[i].arg.job_id = j
            /\ job_status[j] \in {PendingStatus, Complete}
            /\ pc[j] = "Done" => Len(StatusCalls(j)) = 1
            /\ (pc[j] = "Done" /\ StatusWriteSucceeded(j)) => job_status[j] = Complete
        /\ \A i \in 1..Len(StatusCalls(j)) :
                StatusCalls(j)[i].op = "mark_job_errored" =>
                    StatusCalls(j)[i].arg.reason \in InsertErrors
        /\ job_status[j].reason /= SendError

C4_Witness ==
    \E j \in JobIds :
        /\ Len(SendCalls(j)) = 3
        /\ \A i \in 1..3 : SendCalls(j)[i].result = Err(SendError)
        /\ pc[j] = "Done"
        /\ job_status[j] = Complete

(***************************************************************************)
(* C5 as stated: every execution of export_task issues exactly one status  *)
(* write, and that write is its last adapter call.                         *)
(***************************************************************************)
C5_ExactlyOneStatusWrite ==
    \A j \in JobIds :
        pc[j] = "Done" =>
            /\ Len(StatusCalls(j)) = 1
            /\ calls[j][Len(calls[j])].op \in StatusOps

(***************************************************************************)
(* C5 amended: an execution issues at most one status write, and it is the *)
(* last adapter call of the run; exactly one is issued by every execution  *)
(* whose transform succeeded and none by one whose transform failed.  The  *)
(* persisted status is set only by that write succeeding and is never      *)
(* changed again.                                                          *)
(***************************************************************************)
C5_StatusState ==
    \A j \in JobIds :
        /\ Len(StatusCalls(j)) <= 1
        /\ \A i \in 1..Len(calls[j]) : calls[j][i].op \in StatusOps => i = Len(calls[j])
        /\ pc[j] = "Done" =>
            /\ TransformFailed(j) => Len(StatusCalls(j)) = 0
            /\ ~TransformFailed(j) => Len(StatusCalls(j)) = 1
        /\ job_status[j] /= PendingStatus =>
            /\ pc[j] = "Done"
            /\ StatusWriteSucceeded(j)
            /\ job_status[j] = StatusWritten(StatusCalls(j)[1])

C5_StatusStep ==
    \A j \in JobIds :
        /\ job_status[j] /= PendingStatus => job_status'[j] = job_status[j]
        /\ Len(StatusCalls(j)) = 1 => calls'[j] \in {calls[j],
                [calls[j] EXCEPT ![Len(calls[j])].result = Ok],
                [calls[j] EXCEPT ![Len(calls[j])].result = Err(StatusWriteError)]}

C5_AtMostOneStatusWriteLast == []C5_StatusState /\ [][C5_StatusStep]_vars

C5_Witness ==
    \E j \in JobIds :
        /\ pc[j] = "Done"
        /\ Len(calls[j]) >= 6
        /\ Len(StatusCalls(j)) = 1
        /\ calls[j][Len(calls[j])].op = "mark_job_complete"
        /\ job_status[j] = Complete

C7_TransformFailureTouchesNothing ==
    \A j \in JobIds :
        ret[j] = Err(BuildError) =>
            /\ pc[j] = "Done"
            /\ calls[j] = <<>>
            /\ job_status[j] = PendingStatus
            /\ processed[j] = EmptyProcessed
            /\ workspace = {}
            /\ exported_rows = {}
            /\ mailbox = {}

C7_Witness ==
    \E j \in JobIds :
        /\ NumVolunteers(j) = 3
        /\ ret[j] = Err(BuildError)
        /\ pc[j] = "Done"

(***************************************************************************)
(* C8: the notification loop is best-effort.  The i-th send is for the     *)
(* i-th payload of the (possibly truncated) notification list; once the    *)
(* batch insert has succeeded and the notifier has returned, every payload *)
(* of that list has been sent exactly once, in order, whatever sends       *)
(* failed; a failed send is logged and the mail service has accepted       *)
(* exactly the payloads whose send succeeded.                              *)
(***************************************************************************)
AcceptedEmails(j) ==
    {SendCalls(j)[i].arg.email :
        i \in {n \in 1..Len(SendCalls(j)) : SendCalls(j)[n].result = Ok}}

C8_BestEffortNotification ==
    \A j \in JobIds :
        LET sends == SendCalls(j)
            list == processed[j].onboarding_email_data
        IN  /\ Len(sends) <= Len(list)
            /\ \A i \in 1..Len(sends) : sends[i].arg.email = list[i]
            /\ Len(sends) > 0 =>
                /\ InsertSucceeded(j)
                /\ Len(list) = successfully_exported[j]
            /\ (InsertSucceeded(j) /\ pc[j] \in {"Finalizing", "Done"}) =>
                /\ Len(sends) = Len(list)
                /\ Len(sends) = successfully_exported[j]
                /\ send_result[j] = Ok
            /\ \A i \in 1..Len(sends) :
                    sends[i].result = Ok => sends[i].arg.email \in mailbox
            /\ mailbox \subseteq UNION {AcceptedEmails(job) : job \in JobIds}
            /\ Cardinality({n \in 1..Len(sends) : sends[n].result.tag = "Err"}) =
               Cardinality({n \in 1..Len(log[j]) :
                    log[j][n] = [level |-> "error",
                                 event |-> "failed to send onboarding email"]})

C8_Witness ==
    \E j \in JobIds :
        /\ pc[j] = "Done"
        /\ Len(CreateCalls(j)) = 3
        /\ ~ProvisioningFailed(j)
        /\ Len(InsertCalls(j)[1].arg.records) = 3
        /\ InsertSucceeded(j)
        /\ Len(SendCalls(j)) = 3
        /\ SendCalls(j)[1].result = Err(SendError)
        /\ SendCalls(j)[2].result = Ok
        /\ SendCalls(j)[3].result = Ok
        /\ Cardinality(mailbox) = 2
        /\ job_status[j] = Complete

StageRank(stage) ==
    CASE stage = "Idle" -> 0
      [] stage = "Transforming" -> 1
      [] stage = "Provisioning" -> 2
      [] stage = "Persisting" -> 3
      [] stage = "Notifying" -> 4
      [] stage = "Finalizing" -> 5
      [] stage = "Done" -> 6

StageOf(op) ==
    CASE op = "create_volunteer" -> "Provisioning"
      [] op = InsertOp -> "Persisting"
      [] op = "send_onboarding_email" -> "Notifying"
      [] op \in StatusOps -> "Finalizing"

C10_CallOrder ==
    \A j \in JobIds :
        LET cs == calls[j]
        IN  /\ \A a, b \in 1..Len(cs) :
                a < b => StageRank(StageOf(cs[a].op)) <= StageRank(StageOf(cs[b].op))
            /\ Len(InsertCalls(j)) <= 1
            /\ \A i \in 1..Len(cs) : cs[i].result = InFlight => i = Len(cs)
            /\ Pending(j) => pc[j] = StageOf(LastCall(j).op)
            /\ \A i \in 1..Len(cs) :
                StageRank(StageOf(cs[i].op)) <= StageRank(pc[j])
            /\ pc[j] \in {"Idle", "Transforming"} => cs = <<>>

C10_StageStep ==
    \A j \in JobIds :
        /\ StageRank(pc[j]) <= StageRank(pc'[j])
        /\ Len(calls'[j]) > Len(calls[j]) =>
            /\ ~Pending(j)
            /\ calls'[j] = Append(calls[j], calls'[j][Len(calls'[j])])
            /\ calls'[j][Len(calls'[j])].result = InFlight
            /\ StageOf(calls'[j][Len(calls'[j])].op) = pc[j]
            /\ pc'[j] = pc[j]

C10_StagesInOrder == []C10_CallOrder /\ [][C10_StageStep]_vars

C10_Witness ==
    \E j \in JobIds :
        /\ pc[j] = "Done"
        /\ Len(CreateCalls(j)) = 3
        /\ Len(InsertCalls(j)) = 1
        /\ Len(SendCalls(j)) = 3
        /\ Len(StatusCalls(j)) = 1
        /\ Len(calls[j]) = 8

(***************************************************************************)
(* C11: a successful process_volunteers returns three vectors of the       *)
(* length of the volunteer list, and the entries at index i of all three   *)
(* are those of the input volunteer at index i: nothing is reordered,      *)
(* dropped or duplicated.  (The truncation later shortens the last two to  *)
(* a prefix; it never moves an entry.)                                     *)
(***************************************************************************)
Transformed(j) == pc[j] \notin {"Idle", "Transforming"} /\ ~TransformFailed(j)

C11_AlignedVectors ==
    \A j \in JobIds :
        Transformed(j) =>
            LET vs == params[j].volunteers
                p == processed[j]
            IN  /\ Len(p.export_data) = Len(vs)
                /\ pc[j] = "Provisioning" =>
                    /\ Len(p.pantheon_data) = Len(vs)
                    /\ Len(p.onboarding_email_data) = Len(vs)
                /\ Len(p.pantheon_data) <= Len(vs)
                /\ Len(p.onboarding_email_data) = Len(p.pantheon_data)
                /\ \A i \in 1..Len(p.export_data) :
                    /\ p.export_data[i].first_name = vs[i].first_name
                    /\ p.export_data[i].last_name = vs[i].last_name
                    /\ p.export_data[i].recovery_email = vs[i].email
                /\ \A i \in 1..Len(p.pantheon_data) :
                    p.pantheon_data[i].volunteer_id = vs[i].volunteer_id
                /\ \A i \in 1..Len(p.onboarding_email_data) :
                    /\ p.onboarding_email_data[i].first_name = vs[i].first_name
                    /\ p.onboarding_email_data[i].last_name = vs[i].last_name
                    /\ p.onboarding_email_data[i].workspace_email =
                            BuildVolunteerEmail(vs[i].first_name, vs[i].last_name)

C11_Witness ==
    \E j \in JobIds :
        /\ pc[j] = "Provisioning"
        /\ NumVolunteers(j) = 3
        /\ params[j].volunteers[1] /= params[j].volunteers[2]
        /\ params[j].volunteers[2] /= params[j].volunteers[3]
        /\ Len(processed[j].export_data) = 3
        /\ Len(processed[j].pantheon_data) = 3
        /\ Len(processed[j].onboarding_email_data) = 3

(***************************************************************************)
(* C12: with MAIL_RECIPIENT_OVERRIDE set, the recipient of every           *)
(* notification payload of the run, and of every send, is the override     *)
(* whatever the volunteer's personal email; with it unset the recipient is *)
(* the volunteer's personal email.  The override touches nothing else: the *)
(* recovery email of every provisioning request is the personal email.     *)
(***************************************************************************)
C12_RecipientOverride ==
    \A j \in JobIds :
        Transformed(j) =>
            LET vs == params[j].volunteers
                p == processed[j]
            IN  /\ \A i \in 1..Len(p.onboarding_email_data) :
                    /\ env_override /= "unset" =>
                            p.onboarding_email_data[i].email = env_override
                    /\ env_override = "unset" =>
                            p.onboarding_email_data[i].email = vs[i].email
                /\ \A i \in 1..Len(SendCalls(j)) :
                    /\ env_override /= "unset" =>
                            SendCalls(j)[i].arg.email.email = env_override
                    /\ env_override = "unset" =>
                            SendCalls(j)[i].arg.email.email = vs[i].email
                /\ \A i \in 1..Len(p.export_data) :
                    p.export_data[i].recovery_email = vs[i].email
                /\ \A i \in 1..Len(CreateCalls(j)) :
                    CreateCalls(j)[i].arg.user.recovery_email = vs[i].email

C12_Witness ==
    \E j \in JobIds :
        /\ env_override = "staging@developforgood.org"
        /\ pc[j] = "Done"
        /\ Len(SendCalls(j)) = 2
        /\ params[j].volunteers[1].email /= params[j].volunteers[2].email
        /\ SendCalls(j)[1].arg.email.email = "staging@developforgood.org"
        /\ SendCalls(j)[2].arg.email.email = "staging@developforgood.org"
        /\ CreateCalls(j)[1].arg.user.recovery_email = params[j].volunteers[1].email

(***************************************************************************)
(* Two jobs with different job ids run concurrently: both have been handed *)
(* to export_task, and their steps interleave at the adapter calls.        *)
(***************************************************************************)
MaxConcurrentVolunteers == 1

\* The batches of the concurrent jobs are the prefixes of one roster that
\* alternates between the volunteers of the pool.
Roster(n) ==
    [i \in 1..n |->
        CHOOSE v \in VolunteerPool :
            v.volunteer_id = IF i % 2 = 1 THEN "vol-1" ELSE "vol-2"]

ConcurrentLists == { Roster(n) : n \in 0..MaxConcurrentVolunteers }

InitConcurrent ==
    /\ InitCommon
    /\ pc = [j \in JobIds |-> "Transforming"]
    /\ \E vs \in [JobIds -> ConcurrentLists] :
        params = [j \in JobIds |->
                    [job_id |-> j, principal |-> Principal, volunteers |-> vs[j]]]

SpecConcurrent == InitConcurrent /\ [][Next]_vars

\* Everything that belongs to one job: the locals of its export_task, the
\* calls it issued, its log lines and its persisted status.
JobState(j) ==
    <<pc[j], params[j], processed[j], next_user[j], loop_broken[j],
      successfully_exported[j], next_email[j], save_result[j], send_result[j],
      calls[j], ret[j], log[j], job_status[j]>>

OkCreates(j) ==
    Cardinality({i \in 1..Len(CreateCalls(j)) : CreateCalls(j)[i].result = Ok})

(***************************************************************************)
(* C13: concurrently running jobs with different job ids do not interfere. *)
(* Under every interleaving, every export record a job hands to the batch  *)
(* insert and every status write it issues carries the job's own id, the   *)
(* persisted status of a job is the one its own status write set, and the  *)
(* calls and the final status of a job are determined by its own input and *)
(* the outcomes of its own calls; no step of one job changes anything that *)
(* belongs to the other.                                                   *)
(***************************************************************************)
C13_OwnJobOnly ==
    \A j \in JobIds :
        /\ \A c \in 1..Len(InsertCalls(j)) :
            \A i \in 1..Len(InsertCalls(j)[c].arg.records) :
                /\ InsertCalls(j)[c].arg.records[i].job_id = j
                /\ InsertCalls(j)[c].arg.records[i] = ExpectedRecord(j, i)
        /\ \A row \in exported_rows :
            row.job_id = j =>
                /\ InsertSucceeded(j)
                /\ \E i \in 1..Len(InsertCalls(j)[1].arg.records) :
                        row = InsertCalls(j)[1].arg.records[i]
        /\ \A i \in 1..Len(StatusCalls(j)) :
            /\ StatusCalls(j)[i].arg.job_id = j
            /\ StatusCalls(j)[i].op = "mark_job_complete" <=> InsertSucceeded(j)
            /\ StatusCalls(j)[i].op = "mark_job_errored" =>
                    /\ InsertFailed(j)
                    /\ StatusCalls(j)[i].arg.reason = InsertCalls(j)[1].result.err
        /\ job_status[j] =
                IF StatusWriteSucceeded(j)
                THEN StatusWritten(StatusCalls(j)[1])
                ELSE PendingStatus
        /\ \A i \in 1..Len(CreateCalls(j)) :
                CreateCalls(j)[i].arg.user = processed[j].export_data[i]
        /\ \A i \in 1..Len(SendCalls(j)) :
                SendCalls(j)[i].arg.email = processed[j].onboarding_email_data[i]
        /\ (pc[j] = "Done" /\ ~TransformFailed(j)) =>
            /\ Len(CreateCalls(j)) =
                    IF ProvisioningFailed(j) THEN OkCreates(j) + 1 ELSE NumVolunteers(j)
            /\ Len(InsertCalls(j)) = 1
            /\ Len(InsertCalls(j)[1].arg.records) = OkCreates(j)
            /\ Len(SendCalls(j)) = IF InsertSucceeded(j) THEN OkCreates(j) ELSE 0
            /\ Len(StatusCalls(j)) = 1

C13_NoInterference ==
    \A j1, j2 \in JobIds :
        (j1 /= j2 /\ JobState(j1)' /= JobState(j1)) => JobState(j2)' = JobState(j2)

C13_JobsDoNotInterfere == []C13_OwnJobOnly /\ [][C13_NoInterference]_vars

C13_Witness ==
    /\ Pending("job-a")
    /\ LastCall("job-a").op = InsertOp
    /\ Len(LastCall("job-a").arg.records) = 1
    /\ Pending("job-b")
    /\ LastCall("job-b").op = "mark_job_errored"
    /\ Len(CreateCalls("job-b")) = 1

(***************************************************************************)
(* C14: for each volunteer the workspace email is derived once and the     *)
(* temporary password generated once, and the same values are used in all  *)
(* three entries; the request's recovery email is the volunteer's personal *)
(* email; the record carries the volunteer's id, the job's id and the one  *)
(* fixed org unit.                                                         *)
(***************************************************************************)
C14_SameDerivedValues ==
    \A j \in JobIds :
        Transformed(j) =>
            LET vs == params[j].volunteers
                p == processed[j]
            IN  /\ \A i \in 1..Len(p.export_data) :
                    /\ p.export_data[i].primary_email =
                            BuildVolunteerEmail(vs[i].first_name, vs[i].last_name)
                    /\ p.export_data[i].recovery_email = vs[i].email
                    /\ \E seed \in PasswordSeeds :
                            p.export_data[i].password = GeneratePassword(seed, i)
                /\ \A i \in 1..Len(p.pantheon_data) :
                    /\ p.pantheon_data[i].workspace_email =
                            p.export_data[i].primary_email
                    /\ p.pantheon_data[i].volunteer_id = vs[i].volunteer_id
                    /\ p.pantheon_data[i].job_id = params[j].job_id
                    /\ p.pantheon_data[i].org_unit = "/Programs/PantheonUsers"
                /\ \A i \in 1..Len(p.onboarding_email_data) :
                    /\ p.onboarding_email_data[i].workspace_email =
                            p.export_data[i].primary_email
                    /\ p.onboarding_email_data[i].temporary_password =
                            p.export_data[i].password
                /\ \A i \in 1..Len(SendCalls(j)) :
                    /\ SendCalls(j)[i].arg.email.temporary_password =
                            CreateCalls(j)[i].arg.user.password
                    /\ SendCalls(j)[i].arg.email.workspace_email =
                            CreateCalls(j)[i].arg.user.primary_email
                    /\ InsertCalls(j)[1].arg.records[i].workspace_email =
                            CreateCalls(j)[i].arg.user.primary_email

C14_Witness ==
    \E j \in JobIds :
        /\ pc[j] = "Done"
        /\ Len(SendCalls(j)) = 2
        /\ params[j].volunteers[1] /= params[j].volunteers[2]
        /\ SendCalls(j)[2].arg.email.temporary_password = "q2-2"
        /\ CreateCalls(j)[2].arg.user.password = "q2-2"
        /\ InsertCalls(j)[1].arg.records[2].workspace_email =
                "alan.turing@developforgood.org"

(***************************************************************************)
(* Fairness: the task runs on when it can, and every adapter call that is  *)
(* awaited eventually returns, one way or the other.                       *)
(***************************************************************************)
Proceeds(j) ==
    \/ TransformOk(j)
    \/ TransformErr(j)
    \/ CreateVolunteerCall(j)
    \/ FinishProvisioning(j)
    \/ SaveCall(j)
    \/ SendCall(j)
    \/ FinishNotifying(j)
    \/ MarkJobCall(j)

Returns(j) ==
    \/ CreateVolunteerOk(j)
    \/ CreateVolunteerErr(j)
    \/ SaveOk(j)
    \/ SaveErr(j)
    \/ SendOk(j)
    \/ SendErr(j)
    \/ MarkJobOk(j)
    \/ MarkJobErr(j)

Fairness == \A j \in JobIds : WF_vars(Proceeds(j)) /\ WF_vars(Returns(j))

SpecLive == Spec /\ Fairness

(***************************************************************************)
(* C15: provided every adapter call eventually returns, every execution of *)
(* export_task eventually reaches Done, after at most N create_volunteer   *)
(* calls, at most one batch insert, at most N sends and at most one status *)
(* write for a job of N volunteers; and whenever the task has not returned *)
(* it is either awaiting an adapter call or able to take its next step.    *)
(***************************************************************************)
C15_CallBounds ==
    \A j \in JobIds :
        /\ Len(CreateCalls(j)) <= NumVolunteers(j)
        /\ Len(InsertCalls(j)) <= 1
        /\ Len(SendCalls(j)) <= NumVolunteers(j)
        /\ Len(StatusCalls(j)) <= 1
        /\ Len(calls[j]) <= 2 * NumVolunteers(j) + 2
        /\ (pc[j] \notin {"Idle", "Done"} /\ ~Pending(j)) => ENABLED Proceeds(j)
        /\ Pending(j) => (~ENABLED Proceeds(j) /\ ENABLED Returns(j))

C15_Terminates ==
    \A j \in JobIds : (pc[j] = "Transforming") ~> (pc[j] = "Done")

C15_TerminatesWithinBounds == []C15_CallBounds /\ C15_Terminates

C15_Witness ==
    \E j \in JobIds :
        /\ pc[j] = "Done"
        /\ NumVolunteers(j) = 3
        /\ Len(CreateCalls(j)) = 3
        /\ Len(InsertCalls(j)) = 1
        /\ Len(SendCalls(j)) = 3
        /\ Len(StatusCalls(j)) = 1
        /\ ret[j] = Ok

CreatedAccounts(j) ==
    {CreateCalls(j)[i].arg.user :
        i \in {n \in 1..Len(CreateCalls(j)) : CreateCalls(j)[n].result = Ok}}

(***************************************************************************)
(* C16: when the job-status write (mark_job_complete or mark_job_errored)  *)
(* fails, export_task returns that error, issues no second status write    *)
(* (no fallback from complete to errored), and the persisted status stays  *)
(* pending, although the accounts were created and, when the batch insert  *)
(* succeeded, the export records are persisted and the notifications have  *)
(* gone out.                                                               *)
(***************************************************************************)
C16_StatusWriteFailureReturned ==
    \A j \in JobIds :
        StatusWriteFailed(j) =>
            /\ pc[j] = "Done"
            /\ ret[j] = Err(StatusWriteError)
            /\ Len(StatusCalls(j)) = 1
            /\ calls[j][Len(calls[j])] = StatusCalls(j)[1]
            /\ job_status[j] = PendingStatus
            /\ Cardinality(CreatedAccounts(j)) = successfully_exported[j]
            /\ CreatedAccounts(j) \subseteq workspace
            /\ InsertSucceeded(j) =>
                /\ StatusCalls(j)[1].op = "mark_job_complete"
                /\ \A i \in 1..Len(InsertCalls(j)[1].arg.records) :
                        InsertCalls(j)[1].arg.records[i] \in exported_rows
                /\ Len(InsertCalls(j)[1].arg.records) = successfully_exported[j]
                /\ Len(SendCalls(j)) = successfully_exported[j]
                /\ AcceptedEmails(j) \subseteq mailbox
            /\ InsertFailed(j) => StatusCalls(j)[1].op = "mark_job_errored"

C16_Witness ==
    \E j \in JobIds :
        /\ StatusWriteFailed(j)
        /\ StatusCalls(j)[1].op = "mark_job_complete"
        /\ ret[j] = Err(StatusWriteError)
        /\ job_status[j] = PendingStatus
        /\ Cardinality(workspace) = 2
        /\ Cardinality(exported_rows) = 2
        /\ Cardinality(mailbox) = 2

(***************************************************************************)
(* C17: the batch insert is issued exactly once in every run whose         *)
(* transform succeeded, whatever the success count.  When provisioning     *)
(* fails at index 0 or the volunteer list is empty, it is called with an   *)
(* empty record list, no notification is sent, and when that empty insert  *)
(* succeeds the status write issued is mark_job_complete (the job is       *)
(* complete once it succeeds) although no account was created.             *)
(***************************************************************************)
C17_EmptyBatchStillInserted ==
    \A j \in JobIds :
        (Transformed(j) /\ pc[j] \in {"Notifying", "Finalizing", "Done"}) =>
            /\ Len(InsertCalls(j)) = 1
            /\ Len(InsertCalls(j)[1].arg.records) = OkCreates(j)
            /\ (FailedAt(j, 0) \/ NumVolunteers(j) = 0) =>
                /\ OkCreates(j) = 0
                /\ CreatedAccounts(j) = {}
                /\ InsertCalls(j)[1].arg.records = <<>>
                /\ SendCalls(j) = <<>>
                /\ InsertSucceeded(j) =>
                    /\ \A i \in 1..Len(StatusCalls(j)) :
                            StatusCalls(j)[i].op = "mark_job_complete"
                    /\ pc[j] = "Done" => Len(StatusCalls(j)) = 1
                    /\ StatusWriteSucceeded(j) => job_status[j] = Complete

C17_Witness ==
    \E j \in JobIds :
        /\ NumVolunteers(j) = 3
        /\ FailedAt(j, 0)
        /\ pc[j] = "Done"
        /\ InsertSucceeded(j)
        /\ InsertCalls(j)[1].arg.records = <<>>
        /\ workspace = {}
        /\ job_status[j] = Complete

(***************************************************************************)
(* C18: the orchestrator never compensates for earlier stages.  Accounts,  *)
(* export rows and accepted mails are never taken back; when the batch     *)
(* insert fails after k successful create_volunteer calls the k accounts   *)
(* stay created while no export record is persisted and no notification is *)
(* sent (so a terminal state with created accounts that have no export     *)
(* record is reachable); and the accounts named in persisted export        *)
(* records are always among the created accounts.                          *)
(***************************************************************************)
C18_RecordsWithinAccounts ==
    /\ \A row \in exported_rows :
        \E account \in workspace : account.primary_email = row.workspace_email
    /\ \A j \in JobIds :
        /\ CreatedAccounts(j) \subseteq workspace
        /\ InsertFailed(j) =>
            /\ Cardinality(CreatedAccounts(j)) = successfully_exported[j]
            /\ \A i \in 1..successfully_exported[j] :
                    processed[j].export_data[i] \in workspace
            /\ \A row \in exported_rows : row.job_id /= j
            /\ SendCalls(j) = <<>>
            /\ Len(CreateCalls(j)) + 2 >= Len(calls[j])

C18_NothingTakenBack ==
    /\ workspace \subseteq workspace'
    /\ exported_rows \subseteq exported_rows'
    /\ mailbox \subseteq mailbox'

C18_NoCompensation == []C18_RecordsWithinAccounts /\ [][C18_NothingTakenBack]_vars

C18_Witness ==
    \E j \in JobIds :
        /\ pc[j] = "Done"
        /\ InsertFailed(j)
        /\ Cardinality(workspace) = 2
        /\ exported_rows = {}
        /\ mailbox = {}
        /\ SendCalls(j) = <<>>
====
